---- MODULE Spec2Model ----
(***************************************************************************)
(* A model of gyermelyi.hierarchy.Hierarchy: the parent/child mappings,    *)
(* the root finder, the recursive path enumerator, the row flattener and   *)
(* the read operations built on them.                                      *)
(***************************************************************************)
EXTENDS Integers, Sequences, FiniteSets, Bags, TLC

(***************************************************************************)
(* Bounds of the model.                                                    *)
(***************************************************************************)
\* longest source list given to the constructor
MaxEdges == 3
\* longest source list a later database read delivers
MaxNewEdges == 1
\* number of read_source_from_db calls after construction
MaxReloads == 1
\* depth of nested _build_path calls at which the interpreter raises
\* RecursionError (sys.getrecursionlimit(), scaled down to the model)
RecursionLimit == 4

\* node identifiers (opaque, hashable, comparable for equality)
Nodes == {"A", "B", "C"}
NodeOrder == <<"A", "B", "C">>
\* values passed as empty_value
EmptyValues == {"None", "0"}

Edges == Nodes \X Nodes

(***************************************************************************)
(* The sources the model enumerates: duplicate-free lists of pairs, each   *)
(* written in one fixed order (neither the order nor the repetition of     *)
(* pairs changes the sets that _create_mapping builds).                    *)
(***************************************************************************)
Idx(n) == CHOOSE i \in 1..Len(NodeOrder) : NodeOrder[i] = n
Rank(e) == Idx(e[1]) * (Len(NodeOrder) + 1) + Idx(e[2])

RECURSIVE ListOf(_)
ListOf(S) ==
    IF S = {} THEN <<>>
    ELSE LET e == CHOOSE x \in S : \A y \in S : Rank(x) <= Rank(y)
         IN  <<e>> \o ListOf(S \ {e})

SourceLists(k) == {ListOf(S) : S \in {T \in SUBSET Edges : Cardinality(T) <= k}}

\* self.source: None or a list of pairs
NoSource == [none |-> TRUE, pairs |-> <<>>]
SomeSource(l) == [none |-> FALSE, pairs |-> l]

\* self.hierarchy: None or a set of tuples
NoHierarchy == [none |-> TRUE, paths |-> {}]
SomeHierarchy(h) == [none |-> FALSE, paths |-> h]

\* defaultdict(set)
EmptyMap == [n \in {} |-> {}]

VARIABLES
    source,        \* self.source
    hierarchydb,   \* self.hierarchydb is not None
    hierarchy,     \* self.hierarchy
    parent_map,    \* self.parent_map
    parent_keys,   \* insertion order of the keys of self.parent_map
    child_map,     \* self.child_map
    pc,            \* position: "idle", "find_root", "build_path"
    call,          \* the latest public operation and its arguments
    todo,          \* keys of parent_map the roots comprehension has yet to visit
    node,          \* _find_root's local variable node
    picked,        \* the first element of each child_map set, once iterated
    roots,         \* the set roots of create_hierarchy
    pending,       \* the roots the loop of line 134 has yet to visit
    stack,         \* the active _build_path frames
    outcome,       \* how the latest create_hierarchy ended
    ret,           \* what the latest public operation gave its caller
    reloads        \* read_source_from_db calls made so far

vars == <<source, hierarchydb, hierarchy, parent_map, parent_keys, child_map,
          pc, call, todo, node, picked, roots, pending, stack, outcome, ret,
          reloads>>

NoNode == "-"
NoCall == [op |-> "none", flattened |-> FALSE, empty_value |-> "None",
           has_primkey |-> TRUE]

(***************************************************************************)
(* __init__ and _validate: a valid source (or none), an optional database  *)
(* handle; when only the handle is given the source is read from it.       *)
(***************************************************************************)
Init ==
    /\ source \in {NoSource} \cup {SomeSource(l) : l \in SourceLists(MaxEdges)}
    /\ hierarchydb \in BOOLEAN
    /\ hierarchy = NoHierarchy
    /\ parent_map = EmptyMap
    /\ parent_keys = <<>>
    /\ child_map = EmptyMap
    /\ pc = "idle"
    /\ call = NoCall
    /\ todo = <<>>
    /\ node = NoNode
    /\ picked = EmptyMap
    /\ roots = {}
    /\ pending = {}
    /\ stack = <<>>
    /\ outcome = "none"
    /\ ret = [kind |-> "none"]
    /\ reloads = 0

(***************************************************************************)
(* _create_mapping                                                         *)
(***************************************************************************)
\* d[k].add(v) on a defaultdict(set)
MapAdd(m, k, v) ==
    [x \in DOMAIN m \cup {k} |->
        IF x = k THEN (IF k \in DOMAIN m THEN m[k] ELSE {}) \cup {v} ELSE m[x]]

\* d[k] on a defaultdict(set): the key comes to exist
MapTouch(m, k) ==
    [x \in DOMAIN m \cup {k} |-> IF x \in DOMAIN m THEN m[x] ELSE {}]

\* only the first key is kept
KeyTouch_First(keys, k) ==
    IF keys # <<>> THEN keys ELSE <<k>>

KeyTouch(keys, k) ==
    IF \E i \in 1..Len(keys) : keys[i] = k THEN keys ELSE Append(keys, k)

RECURSIVE CreateMapping(_, _)
CreateMapping(pairs, maps) ==
    IF pairs = <<>> THEN maps
    ELSE LET parent == Head(pairs)[1]
             child  == Head(pairs)[2]
         IN  IF parent # child
             THEN CreateMapping(Tail(pairs),
                    [parent_map  |-> MapAdd(maps.parent_map, parent, child),
                     parent_keys |-> KeyTouch(maps.parent_keys, parent),
                     child_map   |-> MapAdd(maps.child_map, child, parent)])
             ELSE CreateMapping(Tail(pairs),
                    [parent_map  |-> MapTouch(maps.parent_map, parent),
                     parent_keys |-> KeyTouch(maps.parent_keys, parent),
                     child_map   |-> maps.child_map])

(***************************************************************************)
(* _flatten_hierarchy                                                      *)
(***************************************************************************)
\* max(len(lst) for lst in self.hierarchy), for a non-empty hierarchy
MaxLength(h) == CHOOSE m \in {Len(p) : p \in h} : \A p \in h : Len(p) <= m

\* [x] * n
Repeat(x, n) == [i \in 1..n |-> x]

\* the slice without its stop: lst[-1:]
LastSlice_Always(lst, has_primkey) ==
    SubSeq(lst, Len(lst), Len(lst))

\* lst[-1:None if has_primkey else 0]
LastSlice(lst, has_primkey) ==
    LET start == IF Len(lst) - 1 < 0 THEN 0 ELSE Len(lst) - 1
        stop  == IF has_primkey THEN Len(lst) ELSE 0
    IN  SubSeq(lst, start + 1, stop)

FlattenRow(lst, max_length, empty_value, has_primkey) ==
    lst \o Repeat(empty_value, max_length - Len(lst)) \o LastSlice(lst, has_primkey)

\* the list flattened_data, up to the order of its rows: a bag of rows
FlattenHierarchy(h, empty_value, has_primkey) ==
    LET max_length == MaxLength(h)
        row(p) == FlattenRow(p, max_length, empty_value, has_primkey)
    IN  [r \in {row(p) : p \in h} |-> Cardinality({p \in h : row(p) = r})]

(***************************************************************************)
(* What the read operations return once self.hierarchy is a set.           *)
(***************************************************************************)
ReturnedNone == [kind |-> "None"]

\* to_tuples without the guard of max(): an empty hierarchy gives an empty set
ToTuplesResult_EmptySet(h, flattened, empty_value, has_primkey) ==
    IF ~flattened \/ h = {} THEN [kind |-> "set", value |-> h]
    ELSE [kind |-> "set",
          value |-> BagToSet(FlattenHierarchy(h, empty_value, has_primkey))]

\* to_tuples, lines 171-175: max() of an empty hierarchy raises ValueError,
\* which the except clause logs and turns into None
ToTuplesResult(h, flattened, empty_value, has_primkey) ==
    IF ~flattened THEN [kind |-> "set", value |-> h]
    ELSE IF h = {} THEN ReturnedNone
    ELSE [kind |-> "set",
          value |-> BagToSet(FlattenHierarchy(h, empty_value, has_primkey))]

\* to_lists, lines 186-190: a list of lists, up to the order of the lists
ToListsResult(h, flattened, empty_value, has_primkey) ==
    IF ~flattened THEN [kind |-> "list", value |-> SetToBag(h)]
    ELSE IF h = {} THEN ReturnedNone
    ELSE [kind |-> "list",
          value |-> FlattenHierarchy(h, empty_value, has_primkey)]

\* f"{level_label or self.level}{i + 1:02d}"
LevelLabel(i) == [label |-> "LVL", number |-> i]
PrimkeyLabel == [label |-> "PK", number |-> 0]

\* the columns argument of to_dataframe
Columns(max_length) == [i \in 1..max_length |-> LevelLabel(i)] \o <<PrimkeyLabel>>

\* to_dataframe, lines 205-211: pd.DataFrame raises ValueError when the
\* number of column labels differs from the width of the rows
ToDataframeResult(h, empty_value, has_primkey) ==
    IF h = {} THEN ReturnedNone
    ELSE LET columns == Columns(MaxLength(h))
             data    == FlattenHierarchy(h, empty_value, has_primkey)
         IN  IF \E r \in BagToSet(data) : Len(r) # Len(columns)
             THEN ReturnedNone
             ELSE [kind |-> "dataframe", columns |-> columns, value |-> data]

Result(c, h) ==
    CASE c.op = "to_tuples" ->
            ToTuplesResult(h, c.flattened, c.empty_value, c.has_primkey)
      [] c.op = "to_lists" ->
            ToListsResult(h, c.flattened, c.empty_value, c.has_primkey)
      [] c.op = "to_dataframe" ->
            ToDataframeResult(h, c.empty_value, c.has_primkey)
      [] OTHER -> ReturnedNone

(***************************************************************************)
(* create_hierarchy, step by step.                                         *)
(***************************************************************************)
\* lines 129-133 and 137-138: the hierarchy becomes an empty set; with a
\* source the mappings are extended and the roots comprehension starts
Begin(c) ==
    /\ hierarchy' = SomeHierarchy({})
    /\ call' = c
    /\ picked' = EmptyMap
    /\ IF source.none
       THEN /\ outcome' = "returned"
            /\ ret' = Result(c, {})
            /\ UNCHANGED <<parent_map, parent_keys, child_map, pc, todo>>
       ELSE LET maps == CreateMapping(source.pairs,
                            [parent_map  |-> parent_map,
                             parent_keys |-> parent_keys,
                             child_map   |-> child_map])
            IN  /\ parent_map' = maps.parent_map
                /\ parent_keys' = maps.parent_keys
                /\ child_map' = maps.child_map
                /\ todo' = maps.parent_keys
                /\ pc' = "find_root"
                /\ outcome' = "running"
                /\ ret' = [kind |-> "none"]
    /\ UNCHANGED <<source, hierarchydb, node, roots, pending, stack, reloads>>

\* the comprehension of line 133 calls _find_root for the next key
FindRootCall ==
    /\ pc = "find_root"
    /\ node = NoNode
    /\ todo # <<>>
    /\ node' = Head(todo)
    /\ todo' = Tail(todo)
    /\ UNCHANGED <<source, hierarchydb, hierarchy, parent_map, parent_keys,
                   child_map, pc, call, picked, roots, pending, stack, outcome, ret,
                   reloads>>

\* next(iter(self.child_map[node])): any element, the same one each time
\* the same unchanged set is iterated
FirstOf(nd, p) ==
    IF nd \in DOMAIN picked THEN p = picked[nd] ELSE p \in child_map[nd]

\* lines 106-107: one turn of the while loop
FindRootStep ==
    /\ pc = "find_root"
    /\ node # NoNode
    /\ node \in DOMAIN child_map
    /\ \E p \in child_map[node] :
          /\ FirstOf(node, p)
          /\ node' = p
          /\ picked' = [x \in DOMAIN picked \cup {node} |->
                           IF x = node THEN p ELSE picked[x]]
    /\ UNCHANGED <<source, hierarchydb, hierarchy, parent_map, parent_keys,
                   child_map, pc, call, todo, roots, pending, stack, outcome, ret,
                   reloads>>

\* _find_root that may return before the ascent has ended
FindRootReturn_Early ==
    /\ pc = "find_root"
    /\ node # NoNode
    /\ roots' = roots \cup {node}
    /\ node' = NoNode
    /\ UNCHANGED <<source, hierarchydb, hierarchy, parent_map, parent_keys,
                   child_map, pc, call, todo, picked, pending, stack, outcome, ret,
                   reloads>>

\* line 108: the loop ends at a node that is no key of child_map
FindRootReturn ==
    /\ pc = "find_root"
    /\ node # NoNode
    /\ node \notin DOMAIN child_map
    /\ roots' = roots \cup {node}
    /\ node' = NoNode
    /\ UNCHANGED <<source, hierarchydb, hierarchy, parent_map, parent_keys,
                   child_map, pc, call, todo, picked, pending, stack, outcome, ret,
                   reloads>>

\* line 134: the roots are complete and the loop over them starts
RootsDone ==
    /\ pc = "find_root"
    /\ node = NoNode
    /\ todo = <<>>
    /\ pc' = "build_path"
    /\ pending' = roots
    /\ UNCHANGED <<source, hierarchydb, hierarchy, parent_map, parent_keys,
                   child_map, call, todo, node, picked, roots, stack, outcome, ret,
                   reloads>>

\* a _build_path frame whose for loop is exhausted returns to its caller
RECURSIVE Unwind(_)
Unwind(stk) ==
    IF stk # <<>> /\ stk[Len(stk)].rest = {}
    THEN Unwind(SubSeq(stk, 1, Len(stk) - 1))
    ELSE stk

\* _build_path that does not record the path of a childless node
Enter_NoLeaf(nd, path, stk, h) ==
    LET p == Append(path, nd)
    IN  IF nd \notin DOMAIN parent_map \/ parent_map[nd] = {}
        THEN [stack |-> stk, paths |-> h]
        ELSE [stack |-> Append(stk, [path |-> p, rest |-> parent_map[nd]]),
              paths |-> h]

\* lines 117-119: _build_path(nd, path) appends the node; a node that is no
\* parent, or has no children, has its path recorded and the call returns;
\* any other node starts the for loop of line 121 over its children
Enter(nd, path, stk, h) ==
    LET p == Append(path, nd)
    IN  IF nd \notin DOMAIN parent_map \/ parent_map[nd] = {}
        THEN [stack |-> stk, paths |-> h \cup {p}]
        ELSE [stack |-> Append(stk, [path |-> p, rest |-> parent_map[nd]]),
              paths |-> h]

\* _build_path that records leaf paths only
RecordPrefix_Skip(h, path) == h

\* line 122: self.hierarchy.add(tuple(path)) before each child's call
RecordPrefix(h, path) == h \cup {path}

\* lines 134-135: _build_path(root, []) for the next root
BuildPathRoot ==
    /\ pc = "build_path"
    /\ stack = <<>>
    /\ \E root \in pending :
          LET r == Enter(root, <<>>, <<>>, hierarchy.paths)
          IN  /\ pending' = pending \ {root}
              /\ stack' = r.stack
              /\ hierarchy' = SomeHierarchy(r.paths)
    /\ UNCHANGED <<source, hierarchydb, parent_map, parent_keys, child_map, pc,
                   call, todo, node, picked, roots, outcome, ret, reloads>>

\* lines 121-123: one turn of the for loop of the innermost call: the path is
\* recorded and _build_path is called for the child with a copy of the path;
\* a call nested deeper than the interpreter allows raises RecursionError,
\* which leaves create_hierarchy and the public operation that called it
BuildPathStep ==
    /\ pc = "build_path"
    /\ stack # <<>>
    /\ LET top == stack[Len(stack)]
       IN  \E child \in top.rest :
             LET h   == RecordPrefix(hierarchy.paths, top.path)
                 stk == [stack EXCEPT ![Len(stack)].rest = top.rest \ {child}]
             IN  IF Len(stack) >= RecursionLimit
                 THEN /\ hierarchy' = SomeHierarchy(h)
                      /\ stack' = <<>>
                      /\ pending' = {}
                      /\ roots' = {}
                      /\ picked' = EmptyMap
                      /\ pc' = "idle"
                      /\ outcome' = "raised"
                      /\ ret' = [kind |-> "raise", exception |-> "RecursionError"]
                 ELSE LET r == Enter(child, top.path, stk, h)
                      IN  /\ hierarchy' = SomeHierarchy(r.paths)
                          /\ stack' = Unwind(r.stack)
                          /\ UNCHANGED <<pending, roots, picked, pc, outcome, ret>>
    /\ UNCHANGED <<source, hierarchydb, parent_map, parent_keys, child_map,
                   call, todo, node, reloads>>

\* line 136: every root is done; create_hierarchy returns and the public
\* operation that called it goes on to its own return statement
CreateHierarchyReturn ==
    /\ pc = "build_path"
    /\ stack = <<>>
    /\ pending = {}
    /\ pc' = "idle"
    /\ roots' = {}
    /\ outcome' = "returned"
    /\ ret' = Result(call, hierarchy.paths)
    /\ picked' = EmptyMap
    /\ UNCHANGED <<source, hierarchydb, hierarchy, parent_map, parent_keys,
                   child_map, call, todo, node, pending, stack, reloads>>

(***************************************************************************)
(* The public operations.                                                  *)
(***************************************************************************)
Args(op, flattened, empty_value, has_primkey) ==
    [op |-> op, flattened |-> flattened, empty_value |-> empty_value,
     has_primkey |-> has_primkey]

\* a read operation: build first when there is no hierarchy, then return
Read(c) ==
    IF hierarchy.none
    THEN Begin(c)
    ELSE /\ ret' = Result(c, hierarchy.paths)
         /\ call' = c
         /\ UNCHANGED <<source, hierarchydb, hierarchy, parent_map, parent_keys,
                        child_map, pc, todo, node, picked, roots, pending,
                        stack, outcome, reloads>>

CreateHierarchy ==
    /\ pc = "idle"
    /\ Begin(Args("create_hierarchy", FALSE, "None", TRUE))

DeleteHierarchy ==
    /\ pc = "idle"
    /\ hierarchy' = NoHierarchy
    /\ outcome' = "none"
    /\ ret' = ReturnedNone
    /\ call' = Args("delete_hierarchy", FALSE, "None", TRUE)
    /\ UNCHANGED <<source, hierarchydb, parent_map, parent_keys, child_map, pc,
                   todo, node, picked, roots, pending, stack, reloads>>

ToTuples ==
    /\ pc = "idle"
    /\ \/ Read(Args("to_tuples", FALSE, "None", TRUE))
       \/ \E e \in EmptyValues, k \in BOOLEAN : Read(Args("to_tuples", TRUE, e, k))

ToLists ==
    /\ pc = "idle"
    /\ \/ Read(Args("to_lists", FALSE, "None", TRUE))
       \/ \E e \in EmptyValues, k \in BOOLEAN : Read(Args("to_lists", TRUE, e, k))

ToDataframe ==
    /\ pc = "idle"
    /\ \E e \in EmptyValues, k \in BOOLEAN : Read(Args("to_dataframe", TRUE, e, k))

\* read_source_from_db: the data the database gives replaces the source; a
\* failed read (None) leaves it unchanged
ReadSourceFromDb ==
    /\ pc = "idle"
    /\ hierarchydb
    /\ reloads < MaxReloads
    /\ \E data \in {NoSource} \cup {SomeSource(l) : l \in SourceLists(MaxNewEdges)} :
          source' = IF data.none THEN source ELSE data
    /\ reloads' = reloads + 1
    /\ ret' = ReturnedNone
    /\ call' = Args("read_source_from_db", FALSE, "None", TRUE)
    /\ UNCHANGED <<hierarchydb, hierarchy, parent_map, parent_keys, child_map, pc,
                   todo, node, picked, roots, pending, stack, outcome>>

Next ==
    \/ CreateHierarchy
    \/ DeleteHierarchy
    \/ ToTuples
    \/ ToLists
    \/ ToDataframe
    \/ ReadSourceFromDb
    \/ FindRootCall
    \/ FindRootStep
    \/ FindRootReturn
    \/ RootsDone
    \/ BuildPathRoot
    \/ BuildPathStep
    \/ CreateHierarchyReturn

Spec == Init /\ [][Next]_vars

\* a public operation runs to its end once called: the interpreter keeps
\* executing the loop of _find_root and the calls of _build_path
Step ==
    \/ FindRootCall
    \/ FindRootStep
    \/ FindRootReturn
    \/ RootsDone
    \/ BuildPathRoot
    \/ BuildPathStep
    \/ CreateHierarchyReturn

FairSpec == Spec /\ WF_vars(Step)

(***************************************************************************)
(* Notions the properties are stated with.                                 *)
(***************************************************************************)
\* the sequences over Nodes of length lo..hi
Walks(lo, hi) == UNION {[1..k -> Nodes] : k \in lo..hi}

\* the edge relation of a source: its pairs with parent # child
Relation(pairs) == {pairs[i] : i \in {j \in 1..Len(pairs) : pairs[j][1] # pairs[j][2]}}

\* no walk along the relation returns to its start
Acyclic(R) ==
    ~ \E w \in Walks(2, Cardinality(Nodes) + 1) :
         /\ w[1] = w[Len(w)]
         /\ \A i \in 1..(Len(w) - 1) : <<w[i], w[i + 1]>> \in R

\* (n1,...,nk): n1 a key of pm absent from cm, each n(i+1) in pm[n(i)]
IsChain(w, pm, cm) ==
    /\ w[1] \in DOMAIN pm
    /\ w[1] \notin DOMAIN cm
    /\ \A i \in 1..(Len(w) - 1) : w[i] \in DOMAIN pm /\ w[i + 1] \in pm[w[i]]

\* h is exactly the set of chains of the mappings; with acyclic mappings no
\* chain is longer than the number of nodes
ExactlyTheChains(h, pm, cm) ==
    /\ \A p \in h : Len(p) >= 1 /\ IsChain(p, pm, cm)
    /\ \A w \in Walks(1, Cardinality(Nodes) + 1) : IsChain(w, pm, cm) => w \in h

\* the mappings a fresh instance builds from the current source alone
FreshMaps ==
    CreateMapping(source.pairs,
        [parent_map |-> EmptyMap, parent_keys |-> <<>>, child_map |-> EmptyMap])

\* the latest create_hierarchy has returned and nothing runs
Built == pc = "idle" /\ outcome = "returned" /\ ~hierarchy.none

\* the longest path length of a non-empty set of paths
Longest(h) ==
    CHOOSE m \in 1..(RecursionLimit + 1) :
        (\E p \in h : Len(p) = m) /\ (\A p \in h : Len(p) <= m)

(***************************************************************************)
(* C1: for a source without a directed cycle, after create_hierarchy the   *)
(* hierarchy is exactly the set of sequences (n1,...,nk), k >= 1, with n1  *)
(* a key of parent_map absent from child_map and each n(i+1) in            *)
(* parent_map[n(i)]: none is missing and nothing else is present.          *)
(***************************************************************************)
C1_ExactPaths ==
    (Built /\ ~source.none /\ Acyclic(Relation(source.pairs)))
        => ExactlyTheChains(hierarchy.paths, parent_map, child_map)

C1_Witness ==
    /\ Built
    /\ source = SomeSource(<< <<"A", "B">>, <<"B", "C">> >>)
    /\ hierarchy.paths = {<<"A">>, <<"A", "B">>, <<"A", "B", "C">>}

(***************************************************************************)
(* C2: prefix closure: once create_hierarchy has completed, every prefix   *)
(* P[:k], 1 <= k <= Len(P), of every path P of the hierarchy is in the     *)
(* hierarchy.                                                              *)
(***************************************************************************)
C2_PrefixClosure ==
    Built => \A p \in hierarchy.paths :
                \A k \in 1..Len(p) : SubSeq(p, 1, k) \in hierarchy.paths

C2_Witness ==
    /\ Built
    /\ \E p \in hierarchy.paths : Len(p) = 3
    /\ \E p \in hierarchy.paths : Len(p) = 1

(***************************************************************************)
(* C3: flattening a non-empty hierarchy gives, for each path P of length   *)
(* L, the row P, then max_length - L copies of empty_value, then P's last  *)
(* element exactly when has_primkey is true; every row has the length      *)
(* max_length + (1 if has_primkey else 0).                                 *)
(***************************************************************************)
RowOf(p, max_length, empty_value, has_primkey) ==
    [i \in 1..(max_length + IF has_primkey THEN 1 ELSE 0) |->
        IF i <= Len(p) THEN p[i]
        ELSE IF i <= max_length THEN empty_value
        ELSE p[Len(p)]]

C3_FlattenedRows ==
    (/\ pc = "idle"
     /\ call.op \in {"to_tuples", "to_lists"}
     /\ call.flattened
     /\ ret.kind # "raise"
     /\ hierarchy.paths # {})
        => LET h    == hierarchy.paths
               rows == {RowOf(p, Longest(h), call.empty_value, call.has_primkey) :
                           p \in h}
           IN  /\ ret.kind = IF call.op = "to_tuples" THEN "set" ELSE "list"
               /\ IF call.op = "to_tuples"
                  THEN ret.value = rows
                  ELSE BagToSet(ret.value) = rows
                       /\ BagCardinality(ret.value) = Cardinality(h)
               /\ \A r \in rows :
                     Len(r) = Longest(h) + IF call.has_primkey THEN 1 ELSE 0

C3_Witness ==
    /\ pc = "idle"
    /\ call = Args("to_tuples", TRUE, "0", TRUE)
    /\ source = SomeSource(<< <<"A", "B">>, <<"A", "C">> >>)
    /\ ret.kind = "set"
    /\ ret.value = {<<"A", "0", "A">>, <<"A", "B", "B">>, <<"A", "C", "C">>}

(***************************************************************************)
(* C4 as stated: a request for flattened output (to_tuples or to_lists     *)
(* with flattened=True, to_dataframe) on an empty hierarchy fails with an  *)
(* error that reaches the caller.                                          *)
(***************************************************************************)
FlattenedRequestOnEmpty ==
    /\ pc = "idle"
    /\ call.op \in {"to_tuples", "to_lists", "to_dataframe"}
    /\ call.flattened
    /\ ~hierarchy.none
    /\ hierarchy.paths = {}

C4_EmptyRaises == FlattenedRequestOnEmpty => ret.kind = "raise"

(***************************************************************************)
(* C4 as amended: a request for flattened output on an empty hierarchy     *)
(* raises nothing: the error of max() over no paths is caught and logged   *)
(* inside the operation, which returns None to its caller.                 *)
(***************************************************************************)
C4_EmptyReturnsNone == FlattenedRequestOnEmpty => ret = ReturnedNone

C4_Witness ==
    /\ FlattenedRequestOnEmpty
    /\ source = SomeSource(<<>>)
    /\ call.op = "to_tuples"
    /\ outcome = "returned"

(***************************************************************************)
(* C5: rebuilding is destructive: whenever create_hierarchy returns, the   *)
(* parent_map, the child_map and the hierarchy are those derived from the  *)
(* source current at that build alone; nothing an earlier source           *)
(* contributed remains.                                                    *)
(***************************************************************************)
C5_RebuildFromCurrentSource ==
    [][(pc = "build_path" /\ pc' = "idle" /\ outcome' = "returned")
          => /\ parent_map' = FreshMaps.parent_map
             /\ child_map' = FreshMaps.child_map
             /\ ExactlyTheChains(hierarchy'.paths, FreshMaps.parent_map,
                                 FreshMaps.child_map)]_vars

(***************************************************************************)
(* C6: rebuilds are all-or-nothing: no read operation returns a hierarchy  *)
(* that holds only part of the paths of the mappings, also not after a     *)
(* build that an error ended part-way: what a read returns is complete,    *)
(* that is, it holds the path of every root and, with a path, its          *)
(* extension by every child of the path's last node.                       *)
(***************************************************************************)
Complete(h) ==
    /\ \A r \in DOMAIN parent_map \ DOMAIN child_map : <<r>> \in h
    /\ \A p \in h :
          p[Len(p)] \in DOMAIN parent_map
             => \A c \in parent_map[p[Len(p)]] : Append(p, c) \in h

C6_AllOrNothing ==
    (pc = "idle" /\ ret.kind \in {"set", "list", "dataframe"})
        => Complete(hierarchy.paths)

(***************************************************************************)
(* C7 as stated: for the source [(A,C),(B,C)] the hierarchy built holds    *)
(* exactly one of the path groups {(A,),(A,C)} and {(B,),(B,C)}.           *)
(***************************************************************************)
TwoParents ==
    /\ Built
    /\ source = SomeSource(<< <<"A", "C">>, <<"B", "C">> >>)
    /\ parent_map = FreshMaps.parent_map
    /\ child_map = FreshMaps.child_map

GroupA == {<<"A">>, <<"A", "C">>}
GroupB == {<<"B">>, <<"B", "C">>}

C7_ExactlyOneGroup ==
    TwoParents =>
        (GroupA \subseteq hierarchy.paths) # (GroupB \subseteq hierarchy.paths)

(***************************************************************************)
(* C7 as amended: for the source [(A,C),(B,C)] the hierarchy built holds   *)
(* both path groups and nothing else: {(A,),(A,C),(B,),(B,C)}.             *)
(***************************************************************************)
C7_BothGroups == TwoParents => hierarchy.paths = GroupA \cup GroupB

C7_Witness == TwoParents /\ call.op = "create_hierarchy"

(***************************************************************************)
(* C8: to_dataframe of a non-empty hierarchy returns a table for either    *)
(* value of has_primkey: max_length level labels 01..max_length, one       *)
(* trailing primary-key label only when has_primkey is true, and as many   *)
(* labels as every row is wide.                                            *)
(***************************************************************************)
C8_DataframeColumns ==
    (/\ pc = "idle"
     /\ call.op = "to_dataframe"
     /\ ret.kind # "raise"
     /\ hierarchy.paths # {})
        => LET m == Longest(hierarchy.paths)
               w == m + IF call.has_primkey THEN 1 ELSE 0
           IN  /\ ret.kind = "dataframe"
               /\ Len(ret.columns) = w
               /\ \A i \in 1..m : ret.columns[i] = LevelLabel(i)
               /\ call.has_primkey => ret.columns[w] = PrimkeyLabel
               /\ \A r \in BagToSet(ret.value) : Len(r) = w

(***************************************************************************)
(* C9: for a source without a directed cycle create_hierarchy terminates:  *)
(* every ascent of _find_root and every descent of _build_path ends.       *)
(***************************************************************************)
C9_Terminates ==
    (pc # "idle" /\ Acyclic(Relation(source.pairs))) ~> (pc = "idle")

(***************************************************************************)
(* C10: whichever parent _find_root picks at a node with several parents,  *)
(* the roots are exactly the keys of parent_map absent from child_map, and *)
(* the hierarchy built from them is the one the mappings determine.        *)
(***************************************************************************)
C10_RootsDetermined ==
    /\ pc = "build_path"
          => roots = {k \in DOMAIN parent_map : k \notin DOMAIN child_map}
    /\ (Built /\ ~source.none)
          => /\ \A p \in hierarchy.paths : p[1] \notin DOMAIN child_map
             /\ \A k \in DOMAIN parent_map :
                   k \notin DOMAIN child_map => <<k>> \in hierarchy.paths

C10_Witness ==
    /\ pc = "build_path"
    /\ Acyclic(Relation(source.pairs))
    /\ \E n \in DOMAIN picked : Cardinality(child_map[n]) > 1
    /\ Cardinality(roots) > 1

====
